---- MODULE Spec2Model ----
(***************************************************************************)
(* A-Priori frequent-itemset mining and association-rule generation        *)
(* (src/apriori.py), modelled as a state machine.                          *)
(*                                                                         *)
(* Items are the integers 1..MaxItem.  A transaction is a list of items    *)
(* (a sequence, repeats allowed, as line.strip().split() yields).  An      *)
(* itemset is a Python tuple of items in sorted order (a strictly          *)
(* increasing sequence).  A dict is a function whose DOMAIN is its key     *)
(* set.  itemset_support / antecedent_support is a float in the code; the  *)
(* model keeps the exact ratio as the pair <<numerator, denominator>> and  *)
(* compares ratios by cross-multiplication.                                *)
(***************************************************************************)
EXTENDS Integers, Sequences, FiniteSets, TLC

\* ---------------------------------------------------------------- bounds
MaxItem == 3
MaxTrans == 3
MaxTableKeys == 1

Items == 1..MaxItem

\* ------------------------------------------------------- python helpers
\* set(seq): the set of elements of a list or tuple.
ToSet(seq) == {seq[i] : i \in DOMAIN seq}

RECURSIVE SortedTuple(_)
\* tuple(sorted(S)) for a set S of items.
SortedTuple(S) ==
    IF S = {} THEN << >>
    ELSE LET m == CHOOSE x \in S : \A y \in S : x <= y
         IN  <<m>> \o SortedTuple(S \ {m})

\* seq[:n] (Python slice: n beyond the end yields the whole sequence).
Prefix(seq, n) ==
    IF n <= 0 THEN << >>
    ELSE IF n >= Len(seq) THEN seq
    ELSE SubSeq(seq, 1, n)

\* {} / defaultdict(int) with no key.
EmptyDict == [s \in {} |-> 0]

\* ---------------------------------------------------- get_itemset_support
\* Variant: the containment test the wrong way round (issubset).
Contains_reversed(transaction, itemset) == ToSet(transaction) \subseteq ToSet(itemset)
\* transaction_set.issuperset(itemset)
Contains(transaction, itemset) == ToSet(itemset) \subseteq ToSet(transaction)

\* Number of transactions of the list that contain the itemset.
SupportCount(transactions, itemset) ==
    Cardinality({i \in DOMAIN transactions : Contains(transactions[i], itemset)})

\* The defaultdict returned: a key exists only once it has been incremented.
get_itemset_support(transactions, itemsets) ==
    [s \in {c \in itemsets : \E i \in DOMAIN transactions : Contains(transactions[i], c)}
        |-> SupportCount(transactions, s)]

\* ---------------------------------------------------- generate_candidates
generate_candidates(frequent_itemsets, k) ==
    {SortedTuple(ToSet(p[1]) \cup ToSet(p[2])) :
        p \in {q \in (DOMAIN frequent_itemsets) \X (DOMAIN frequent_itemsets) :
                 /\ q[1] # q[2]
                 /\ Prefix(q[1], k - 1) = Prefix(q[2], k - 1)}}

\* --------------------------------------------- filter_itemsets_by_support
filter_itemsets_by_support(itemset_support, min_support) ==
    [s \in {c \in DOMAIN itemset_support : itemset_support[c] >= min_support}
        |-> itemset_support[s]]

\* dict.update: keys of b override keys of a.
Update(a, b) ==
    [s \in (DOMAIN a) \cup (DOMAIN b) |-> IF s \in DOMAIN b THEN b[s] ELSE a[s]]

\* ------------------------------------------------------------ apriori loop
\* Variant: the join run on the accumulated table.
NextCandidates_all(all_frequent, frequent, k) == generate_candidates(all_frequent, k)
\* Line 109: the next candidates come from this level's frequent itemsets.
NextCandidates(all_frequent, frequent, k) == generate_candidates(frequent, k)

\* Variant: a proper-subset test (<) in place of issubset.
Narrow_proper(transactions, itemsets) ==
    SelectSeq(transactions, LAMBDA t : \E c \in itemsets :
                                ToSet(c) \subseteq ToSet(t) /\ ToSet(c) # ToSet(t))
\* Line 114: keep the transactions that contain any of the next candidates.
Narrow(transactions, itemsets) ==
    SelectSeq(transactions, LAMBDA t : \E c \in itemsets : ToSet(c) \subseteq ToSet(t))

\* ----------------------------------------------- generate_association_rules
\* frequent_itemsets.get(key, 0)
Lookup(table, key) == IF key \in DOMAIN table THEN table[key] ELSE 0

\* combinations(itemset, i) for i in range(1, len(itemset)): the choices of
\* positions of the tuple, neither none nor all of them.
IndexSets(itemset) ==
    {ix \in SUBSET (DOMAIN itemset) : ix # {} /\ ix # DOMAIN itemset}

\* tuple(sorted(comb))
Antecedent(itemset, ix) == SortedTuple({itemset[i] : i \in ix})

\* tuple(sorted(set(itemset) - set(antecedent)))
Consequent(itemset, antecedent) == SortedTuple(ToSet(itemset) \ ToSet(antecedent))

\* The (itemset, antecedent positions) pairs the two loops reach past the
\* "continue" statements of lines 135-136 and 143-144.
RuleVisits(table) ==
    UNION {{<<s, ix>> : ix \in {jx \in IndexSets(s) :
                                  Consequent(s, Antecedent(s, jx)) # << >>}} :
           s \in {t \in DOMAIN table : Len(t) >= 2}}

\* Line 147 divides by a support of 0: ZeroDivisionError.
DivisionFault(table) ==
    \E v \in RuleVisits(table) : Lookup(table, Antecedent(v[1], v[2])) = 0

\* confidence >= min_confidence, on exact ratios with positive denominators.
\* Variant: > in place of >=.
MeetsConfidence_strict(confidence, min_conf) ==
    confidence[1] * min_conf[2] > min_conf[1] * confidence[2]
MeetsConfidence(confidence, min_conf) ==
    confidence[1] * min_conf[2] >= min_conf[1] * confidence[2]

\* (antecedent, consequent, itemset_support, confidence)
\* Variant: the ratio upside down.
RuleOf_inverted(table, v) ==
    LET a == Antecedent(v[1], v[2])
    IN  <<a, Consequent(v[1], a), table[v[1]], <<Lookup(table, a), table[v[1]]>>>>
RuleOf(table, v) ==
    LET a == Antecedent(v[1], v[2])
    IN  <<a, Consequent(v[1], a), table[v[1]], <<table[v[1]], Lookup(table, a)>>>>

\* The returned list, up to order: the rule appended at each pass of the two
\* loops that reaches line 150, indexed by that pass.
generate_association_rules(table, min_conf) ==
    [v \in {w \in RuleVisits(table) : MeetsConfidence(RuleOf(table, w)[4], min_conf)}
        |-> RuleOf(table, v)]

\* ------------------------------------------------------------------ inputs
RECURSIVE Rank(_)
\* A numbering of the transactions, used to list datasets up to reordering.
Rank(t) == IF t = << >> THEN 0 ELSE t[1] + (MaxItem + 2) * Rank(Tail(t))

\* Transactions: every set of items as a sorted list, and one list that
\* repeats an item (the line "1 1").
TransactionPool == {SortedTuple(S) : S \in SUBSET Items} \cup {<<1, 1>>}

\* Datasets of at most MaxTrans transactions, one per multiset of
\* transactions (the list in non-decreasing Rank order).
Datasets ==
    UNION {{d \in [1..n -> TransactionPool] :
              \A i \in 1..(n - 1) : Rank(d[i]) <= Rank(d[i + 1])} : n \in 0..MaxTrans}

MinSupports == (0 - 1)..(MaxTrans + 1)

\* min_confidence as numerator/denominator; -1/2 and 3/2 lie outside [0,1].
ConfValues == {<<0 - 1, 2>>, <<0, 1>>, <<1, 2>>, <<2, 3>>, <<1, 1>>, <<3, 2>>}
NoConf == <<0, 0>>

AllItemsets == {SortedTuple(S) : S \in (SUBSET Items) \ {{}}}

\* Tables handed directly to generate_association_rules: at most
\* MaxTableKeys keys, supports in 1..MaxTrans.
DirectTables ==
    UNION {[K -> 1..MaxTrans] :
             K \in {J \in SUBSET AllItemsets : Cardinality(J) <= MaxTableKeys}}

\* ------------------------------------------------------------------- state
VARIABLES
    entry,                  \* which function the caller entered
    dataset,                \* the caller's transaction list (never mutated)
    min_support,
    min_confidence,
    transactions,           \* apriori's local list, narrowed at line 114
    current_itemsets,
    itemset_support,
    frequent_itemsets,
    all_frequent_itemsets,
    k,
    rules,
    pc

vars == <<entry, dataset, min_support, min_confidence, transactions,
          current_itemsets, itemset_support, frequent_itemsets,
          all_frequent_itemsets, k, rules, pc>>

\* main(): apriori(transactions, min_support) is entered.
InitApriori ==
    /\ entry = "apriori"
    /\ dataset \in Datasets
    /\ min_support \in MinSupports
    /\ transactions = dataset
    /\ all_frequent_itemsets = EmptyDict
    /\ pc = "call"

\* generate_association_rules(frequent_itemsets, ...) is entered with a table
\* of the caller's own.
InitRules ==
    /\ entry = "generate_association_rules"
    /\ dataset = << >>
    /\ min_support = 0
    /\ transactions = << >>
    /\ all_frequent_itemsets \in DirectTables
    /\ pc = "done"

Init ==
    /\ InitApriori \/ InitRules
    /\ min_confidence = NoConf
    /\ current_itemsets = {}
    /\ itemset_support = EmptyDict
    /\ frequent_itemsets = EmptyDict
    /\ k = 0
    /\ rules = EmptyDict

\* Lines 87-94: single-item candidates, empty table, k = 1.
Start ==
    /\ pc = "call"
    /\ current_itemsets' =
         {<<item>> : item \in UNION {ToSet(transactions[i]) : i \in DOMAIN transactions}}
    /\ all_frequent_itemsets' = EmptyDict
    /\ k' = 1
    /\ pc' = "loop"
    /\ UNCHANGED <<entry, dataset, min_support, min_confidence, transactions,
                   itemset_support, frequent_itemsets, rules>>

\* Lines 96-114: one pass of the while loop, assignment by assignment.
Level ==
    /\ pc = "loop"
    /\ current_itemsets # {}
    /\ itemset_support' = get_itemset_support(transactions, current_itemsets)
    /\ frequent_itemsets' = filter_itemsets_by_support(itemset_support', min_support)
    /\ all_frequent_itemsets' = Update(all_frequent_itemsets, frequent_itemsets')
    /\ current_itemsets' = NextCandidates(all_frequent_itemsets', frequent_itemsets', k)
    /\ k' = k + 1
    /\ transactions' = IF k' > 2 THEN Narrow(transactions, current_itemsets')
                       ELSE transactions
    /\ UNCHANGED <<entry, dataset, min_support, min_confidence, rules, pc>>

\* Lines 96, 116-117: no candidate is left, the table is returned.
Return ==
    /\ pc = "loop"
    /\ current_itemsets = {}
    /\ pc' = "done"
    /\ UNCHANGED <<entry, dataset, min_support, min_confidence, transactions,
                   current_itemsets, itemset_support, frequent_itemsets,
                   all_frequent_itemsets, k, rules>>

\* Lines 131-153: the rule list, or the ZeroDivisionError of line 147.
GenerateRules ==
    /\ pc = "done"
    /\ \E mc \in ConfValues :
         /\ min_confidence' = mc
         /\ IF DivisionFault(all_frequent_itemsets)
            THEN /\ pc' = "ZeroDivisionError"
                 /\ rules' = rules
            ELSE /\ pc' = "rules"
                 /\ rules' = generate_association_rules(all_frequent_itemsets, mc)
    /\ UNCHANGED <<entry, dataset, min_support, transactions, current_itemsets,
                   itemset_support, frequent_itemsets, all_frequent_itemsets, k>>

Next == Start \/ Level \/ Return \/ GenerateRules

Spec == Init /\ [][Next]_vars

\* ------------------------------------------------ the engine on four levels
\* apriori alone, on datasets over one more item than Items, so that the
\* loop can reach level MaxItem + 1 and line 114 runs on a list it has
\* already narrowed.
EngineItems == 1..(MaxItem + 1)

EngineDatasets ==
    LET pool == {SortedTuple(S) : S \in SUBSET EngineItems}
    IN  UNION {{d \in [1..n -> pool] :
                  \A i \in 1..(n - 1) : Rank(d[i]) <= Rank(d[i + 1])} : n \in 0..MaxTrans}

\* main(): apriori(transactions, min_support) is entered with a threshold
\* between 1 and the largest dataset size.
InitEngine ==
    /\ entry = "apriori"
    /\ dataset \in EngineDatasets
    /\ min_support \in 1..MaxTrans
    /\ transactions = dataset
    /\ all_frequent_itemsets = EmptyDict
    /\ pc = "call"
    /\ min_confidence = NoConf
    /\ current_itemsets = {}
    /\ itemset_support = EmptyDict
    /\ frequent_itemsets = EmptyDict
    /\ k = 0
    /\ rules = EmptyDict

EngineNext == Start \/ Level \/ Return

EngineSpec == InitEngine /\ [][EngineNext]_vars

\* ------------------------------------------------------------ properties
\* The distinct items of the caller's dataset.
ObservedItems == UNION {ToSet(dataset[i]) : i \in DOMAIN dataset}

\* The non-empty itemsets over the observed items, as sorted tuples.
ObservedItemsets == {SortedTuple(S) : S \in (SUBSET ObservedItems) \ {{}}}

\* Support over the original dataset.
Support(itemset) == SupportCount(dataset, itemset)

\* The non-empty sub-itemsets of an itemset, as sorted tuples.
SubItemsets(itemset) == {SortedTuple(S) : S \in (SUBSET ToSet(itemset)) \ {{}}}

InUnitInterval(r) == r[2] > 0 /\ 0 <= r[1] /\ r[1] <= r[2]

\* C1: for min_support >= 0 the table returned by apriori has as keys exactly
\* the non-empty itemsets over the observed items whose support over the
\* original dataset is >= min_support, each mapped to that support.
C1_ExactFrequentTable ==
    (entry = "apriori" /\ pc = "done" /\ min_support >= 0) =>
        all_frequent_itemsets =
            [s \in {c \in ObservedItemsets : Support(c) >= min_support} |-> Support(s)]

\* C2: at the end of every level and at Done of a run of apriori, every
\* non-empty subset of a key of the table is a key of the table, with a
\* support at least that of the key.
C2_AntiMonotone ==
    (entry = "apriori" /\ pc \in {"loop", "done"}) =>
        \A s \in DOMAIN all_frequent_itemsets : \A sub \in SubItemsets(s) :
            /\ sub \in DOMAIN all_frequent_itemsets
            /\ all_frequent_itemsets[sub] >= all_frequent_itemsets[s]

\* A table with a three-item key whose support is strictly below that of one
\* of its subsets has been returned.
C2_Witness ==
    /\ entry = "apriori"
    /\ pc = "done"
    /\ min_support >= 1
    /\ \E s \in DOMAIN all_frequent_itemsets :
         /\ Len(s) >= 3
         /\ \E sub \in SubItemsets(s) :
              /\ sub \in DOMAIN all_frequent_itemsets
              /\ all_frequent_itemsets[sub] > all_frequent_itemsets[s]

\* The rules the contract asks for: one per table itemset I of two or more
\* items and non-empty proper subset A of I whose ratio table[I]/table[A]
\* is >= min_confidence.
ExpectedRules ==
    UNION {{<<a, SortedTuple(ToSet(i) \ ToSet(a)), all_frequent_itemsets[i],
              <<all_frequent_itemsets[i], all_frequent_itemsets[a]>>>> :
              a \in {b \in SubItemsets(i) :
                       /\ b # i
                       /\ b \in DOMAIN all_frequent_itemsets
                       /\ all_frequent_itemsets[i] * min_confidence[2]
                            >= min_confidence[1] * all_frequent_itemsets[b]}} :
           i \in {j \in DOMAIN all_frequent_itemsets : Len(j) >= 2}}

\* C3: on a table produced by apriori and a min_confidence in [0,1], the
\* returned list holds exactly the expected rules, each once, and the
\* antecedent and consequent of each rule are disjoint.
C3_ExactRules ==
    (entry = "apriori" /\ pc = "rules" /\ InUnitInterval(min_confidence)) =>
        /\ LET expected == ExpectedRules
           IN  /\ {rules[v] : v \in DOMAIN rules} = expected
               /\ Cardinality(DOMAIN rules) = Cardinality(expected)
        /\ \A v \in DOMAIN rules :
             /\ ToSet(rules[v][1]) \cap ToSet(rules[v][2]) = {}
             /\ ToSet(rules[v][1]) \cup ToSet(rules[v][2]) = ToSet(v[1])
             /\ rules[v][1] # << >>
             /\ rules[v][2] # << >>

\* Rules were returned for a min_confidence in [0,1]: one of them has a
\* confidence equal to min_confidence, and some candidate rule was dropped.
C3_Witness ==
    /\ entry = "apriori"
    /\ pc = "rules"
    /\ min_support >= 1
    /\ InUnitInterval(min_confidence)
    /\ \E v \in DOMAIN rules :
         rules[v][4][1] * min_confidence[2] = min_confidence[1] * rules[v][4][2]
    /\ \E v \in RuleVisits(all_frequent_itemsets) : v \notin DOMAIN rules

\* Some antecedent that generate_association_rules looks up is not a key.
MissingAntecedent ==
    \E v \in RuleVisits(all_frequent_itemsets) :
        Antecedent(v[1], v[2]) \notin DOMAIN all_frequent_itemsets

\* C4: once generate_association_rules has run on a table that lacks an
\* antecedent, the call has failed with MissingAntecedentSupport, not with a
\* division fault.
C4_MissingAntecedentSupport ==
    (pc \notin {"call", "loop", "done"} /\ MissingAntecedent) =>
        pc = "MissingAntecedentSupport"

\* C5: apriori with min_support < 0 never gets past its entry, and
\* generate_association_rules with min_confidence outside [0,1] ends in
\* InvalidThreshold.
C5_InvalidThresholdRejected ==
    /\ (entry = "apriori" /\ min_support < 0) => pc \in {"call", "InvalidThreshold"}
    /\ (min_confidence # NoConf /\ ~InUnitInterval(min_confidence)) =>
           pc = "InvalidThreshold"

\* C6: in a run with min_support >= 1, the call of get_itemset_support made
\* at the head of the loop (line 100) returns
\* a mapping whose keys are exactly the candidates, each mapped to the number
\* of transactions of the working list that contain it.
C6_SupportCoversCandidates ==
    (pc = "loop" /\ current_itemsets # {} /\ min_support >= 1) =>
        LET r == get_itemset_support(transactions, current_itemsets)
        IN  /\ DOMAIN r = current_itemsets
            /\ \A c \in current_itemsets : r[c] = SupportCount(transactions, c)

\* C7: every rule returned on a table produced by apriori has
\* 0 < support(itemset) <= support(antecedent), carries the ratio of the two
\* as its confidence, and that ratio is >= min_confidence.
C7_ConfidenceBound ==
    (entry = "apriori" /\ pc = "rules") =>
        \A v \in DOMAIN rules :
            /\ rules[v][4] = <<all_frequent_itemsets[v[1]],
                               Lookup(all_frequent_itemsets, rules[v][1])>>
            /\ rules[v][3] = rules[v][4][1]
            /\ 0 < rules[v][4][1]
            /\ rules[v][4][1] <= rules[v][4][2]
            /\ rules[v][4][1] * min_confidence[2] >= min_confidence[1] * rules[v][4][2]

\* Rules were returned, one with confidence 1 and one with confidence below 1.
C7_Witness ==
    /\ entry = "apriori"
    /\ pc = "rules"
    /\ min_support >= 1
    /\ \E v \in DOMAIN rules : rules[v][4][1] = rules[v][4][2]
    /\ \E v \in DOMAIN rules : rules[v][4][1] < rules[v][4][2]

\* C8: at the head of the loop, at every level k >= 2, each candidate has all
\* of its (k-1)-item subsets among the frequent itemsets of level k-1.
C8_CandidatesSubsetPruned ==
    (pc = "loop" /\ k >= 2) =>
        \A c \in current_itemsets : \A x \in ToSet(c) :
            SortedTuple(ToSet(c) \ {x}) \in DOMAIN frequent_itemsets

\* C9: a level is followed by the next level (k grows by one), and the loop
\* is left for Done exactly when the level found no frequent itemset or the
\* join produced no candidate; the levels run never exceed the number of
\* distinct items; an empty dataset ends with an empty table after no level.
\* Done is reached: until then a step of apriori is always possible, entry
\* and exit happen once, and each pass of the loop raises k, which stays
\* within the number of distinct items plus one.
C9_LevelsTerminate ==
    /\ [][/\ (pc = "call") => (pc' = "loop" /\ k' = 1)
          /\ (pc = "loop" /\ current_itemsets # {}) =>
                /\ pc' = "loop"
                /\ k' = k + 1
                /\ (current_itemsets' = {}) <=>
                      \/ DOMAIN frequent_itemsets' = {}
                      \/ generate_candidates(frequent_itemsets', k) = {}
          /\ (pc = "loop" /\ current_itemsets = {}) =>
                /\ pc' = "done"
                /\ k' = k
                /\ all_frequent_itemsets' = all_frequent_itemsets]_vars
    /\ []((entry = "apriori" /\ pc # "call") => k - 1 <= Cardinality(ObservedItems))
    /\ []((entry = "apriori" /\ pc = "loop" /\ current_itemsets # {}) =>
             k <= Cardinality(ObservedItems))
    /\ []((entry = "apriori" /\ pc = "done" /\ dataset = << >>) =>
             (k = 1 /\ all_frequent_itemsets = EmptyDict))
    /\ []((entry = "apriori" /\ pc \in {"call", "loop"}) =>
             ENABLED (Start \/ Level \/ Return))

\* apriori returned after running as many levels as there are distinct items,
\* three or more.
C9_Witness ==
    /\ entry = "apriori"
    /\ pc = "done"
    /\ min_support >= 1
    /\ k - 1 = Cardinality(ObservedItems)
    /\ k - 1 >= 3

RECURSIVE PlainLoop(_, _, _, _)
\* The loop of apriori without lines 113-114: every level counts on the
\* whole dataset.
PlainLoop(candidates, table, level, threshold) ==
    IF candidates = {} THEN table
    ELSE LET frequent == filter_itemsets_by_support(
                             get_itemset_support(dataset, candidates), threshold)
         IN  PlainLoop(generate_candidates(frequent, level),
                       Update(table, frequent), level + 1, threshold)

\* Whether a transaction contains one of the current candidates.
Relevant(t) == \E c \in current_itemsets : ToSet(c) \subseteq ToSet(t)

\* C10: at the head of the loop the working list holds every transaction of
\* the dataset that contains a current candidate, in the dataset's order, so
\* each candidate's support on the working list is its support on the
\* dataset; the table returned is the one the loop without narrowing builds.
C10_NarrowingSound ==
    /\ (entry = "apriori" /\ pc = "loop") =>
          /\ SelectSeq(transactions, Relevant) = SelectSeq(dataset, Relevant)
          /\ \A c \in current_itemsets :
                SupportCount(transactions, c) = Support(c)
    /\ (entry = "apriori" /\ pc = "done") =>
          all_frequent_itemsets =
              PlainLoop({<<x>> : x \in ObservedItems}, EmptyDict, 1, min_support)

\* Level 4 is about to be counted on a non-empty working list after two
\* narrowings that each dropped a transaction: one with fewer than three
\* items went at the first, and one that contains a frequent three-item set
\* (so it was kept at the first) but no level-4 candidate went at the second.
C10_Witness ==
    /\ entry = "apriori"
    /\ pc = "loop"
    /\ k = 4
    /\ min_support >= 1
    /\ current_itemsets # {}
    /\ Len(transactions) > 0
    /\ \E i \in DOMAIN dataset :
         /\ dataset[i] # << >>
         /\ Cardinality(ToSet(dataset[i])) < 3
    /\ \E j \in DOMAIN dataset :
         /\ \E s \in DOMAIN frequent_itemsets :
              Len(s) = 3 /\ ToSet(s) \subseteq ToSet(dataset[j])
         /\ ~Relevant(dataset[j])

====
